---- MODULE Spec2Model ----
(***************************************************************************)
(* A model of libJNIPoint.c: the Point structure, the distance function in *)
(* its by-value and by-pointer forms, and the JNI entry points that        *)
(* allocate, free, read, write and measure Points through opaque handles   *)
(* and through direct buffers.                                             *)
(*                                                                         *)
(* C `int` is a 32-bit two's complement integer.  A value is kept as the   *)
(* signed integer it denotes; the arithmetic of the code is computed on    *)
(* 16-bit halves so that every intermediate result of the model itself     *)
(* stays inside the integers of TLC, and wraps modulo 2^32 exactly as      *)
(* the machine instruction does.  Signed overflow in p1.x - p2.x, in abs   *)
(* and in the squares is taken as this wrap-around, the result the         *)
(* two's complement targets of the library produce.                        *)
(*                                                                         *)
(* The entry points validate nothing.  The callers modelled here keep to   *)
(* the contract: a handle is used only by the thread that got it from      *)
(* allocate and only until that thread frees it, and malloc is taken to    *)
(* succeed (a NULL return is not modelled).  A field that was never set    *)
(* holds what malloc left there and reads as some int.                     *)
(***************************************************************************)
EXTENDS Integers, Sequences, FiniteSets, TLC

\* Number of addresses the allocator can hand out (heap capacity of the model).
MaxAddr == 2

\* INT_MAX and INT_MIN of the `int` fields of Point.
MaxInt == 2147483647
MinInt == (-MaxInt) - 1

Byte == 2 ^ 8
Half == 256 * 256

Int32 == MinInt..MaxInt

(***************************************************************************)
(* 32-bit machine arithmetic                                               *)
(***************************************************************************)
\* The upper and lower 16 bits of the two's complement pattern of a.
Hi(a) == (a \div Half) % Half
Lo(a) == a % Half

\* The signed value of the 32-bit pattern hi:lo.
ToInt(hi, lo) ==
  IF hi >= Half \div 2 THEN (hi - Half) * Half + lo ELSE hi * Half + lo

\* a + b as the 32-bit add instruction computes it.
Add32(a, b) ==
  LET lo == Lo(a) + Lo(b)
      hi == Hi(a) + Hi(b) + (lo \div Half)
  IN  ToInt(hi % Half, lo % Half)

\* a - b as the 32-bit subtract instruction computes it.
Sub32(a, b) ==
  LET lo == Lo(a) - Lo(b)
      hi == Hi(a) - Hi(b) + (lo \div Half)
  IN  ToInt(hi % Half, lo % Half)

\* The low 16 bits of the product of two 16-bit halves.
MulLo16(a, b) ==
  ((a % Byte) * b + (((a \div Byte) * b) % Byte) * Byte) % Half

\* a * b as the 32-bit multiply instruction computes it (low 32 bits).
Mul32(a, b) ==
  LET al == Lo(a)
      ah == Hi(a)
      bl == Lo(b)
      bh == Hi(b)
      p0 == (al % Byte) * bl
      p1 == (al \div Byte) * bl
      lo == (p0 % Half) + (p1 % Byte) * Byte
      hi == (p0 \div Half) + (p1 \div Byte) + (lo \div Half)
              + MulLo16(ah, bl) + MulLo16(al, bh)
  IN  ToInt(hi % Half, lo % Half)

(***************************************************************************)
(* libm / libc functions used by distance                                  *)
(***************************************************************************)
\* Mutant of abs: the argument returned as it is.
abs_identity(a) == a

\* abs(int) of <stdlib.h>: negation of a negative argument, computed in 32
\* bits (the negation of INT_MIN is INT_MIN again).
abs(a) == IF a < 0 THEN Sub32(0, a) ELSE a

\* The largest n with n * n <= r, for 0 <= r <= INT_MAX, found bit by bit.
RECURSIVE SqrtBit(_, _, _)
SqrtBit(r, res, bit) ==
  IF bit < 0 THEN res
  ELSE LET cand == res + 2 ^ bit
       IN  IF cand <= 46340 /\ cand * cand <= r
             THEN SqrtBit(r, cand, bit - 1)
             ELSE SqrtBit(r, res, bit - 1)

ISqrt(r) == SqrtBit(r, 0, 15)

\* A double returned by sqrt.  The int argument converts to double exactly;
\* the result is NaN for a negative argument and otherwise the square root
\* of `sq`, of which `floor` is the integer part.  Distinct arguments in
\* 0..INT_MAX have distinct correctly rounded roots, so the record determines
\* the double returned.
NaN == [nan |-> TRUE, sq |-> 0, floor |-> 0]

sqrt(r) ==
  IF r < 0 THEN NaN ELSE [nan |-> FALSE, sq |-> r, floor |-> ISqrt(r)]

(***************************************************************************)
(* Point and distance                                                      *)
(***************************************************************************)
Point(vx, vy) == [x |-> vx, y |-> vy]

PointsOver(S) == {Point(vx, vy) : vx \in S, vy \in S}

\* Mutant of xDist: the y field of p2 taken for its x field.
xDist_p2y(p1, p2) == abs(Sub32(p1.x, p2.y))

\* int xDist = abs(p1.x - p2.x);
xDist(p1, p2) == abs(Sub32(p1.x, p2.x))

\* Mutants of yDist: the x fields taken again, and the x field of p2 taken
\* for its y field.
yDist_copyx(p1, p2) == abs(Sub32(p1.x, p2.x))
yDist_p2x(p1, p2) == abs(Sub32(p1.y, p2.x))

\* int yDist = abs(p1.y - p2.y);
yDist(p1, p2) == abs(Sub32(p1.y, p2.y))

\* (xDist * xDist) + (yDist * yDist), the int handed to sqrt.
radicand(xd, yd) == Add32(Mul32(xd, xd), Mul32(yd, yd))

\* The locals of one invocation of distance, and the int handed to sqrt.
distanceFrame(p1, p2) ==
  LET xd == xDist(p1, p2)
      yd == yDist(p1, p2)
  IN  [xDist |-> xd, yDist |-> yd, sum |-> radicand(xd, yd)]

\* double distance(Point p1, Point p2)
distance(p1, p2) == sqrt(distanceFrame(p1, p2).sum)

(***************************************************************************)
(* State                                                                   *)
(***************************************************************************)
\* Addresses malloc can return; a handle (jlong) is the address itself, the
\* casts between Point* and jlong keeping every bit of it.
Addr == 1..MaxAddr

\* The threads of the host runtime that call into the library.
Threads == {"t1", "t2"}

\* The two caller-owned direct buffers and the two caller-owned structures.
BufId == {1, 2}
StackId == {1, 2}

\* Field values the callers of the handle and buffer entry points use.
HVals == {MinInt, 3}
HPoints == PointsOver(HVals)

\* Field values of the structures handed to distance by value.
DVals == {MinInt, -4, -3, 0, 3, 4, 46340, 46341, 65536, MaxInt}
DPoints == PointsOver(DVals)

VARIABLES
  heap,     \* heap[a]: whether a is allocated, and the two fields stored there
  handles,  \* handles[t]: the handles thread t got from allocate and holds
  lastX,    \* lastX[a]: the last setX on a since its allocation, and by whom
  lastY,    \* lastY[a]: the same for setY
  bufs,     \* bufs[b]: the 8 bytes of direct buffer b
  pts,      \* pts[i]: the caller's structures passed by value / by pointer
  ret       \* the last call: entry point, calling thread, arguments, result,
            \* whether every block it accessed was allocated when it ran, and
            \* (a call of distance) the locals of distance when it returned

vars == <<heap, handles, lastX, lastY, bufs, pts, ret>>

\* A field of a heap block: a stored int, or the indeterminate contents that
\* malloc leaves, which read as some int.
Indet == [det |-> FALSE, val |-> 0]
Stored(v) == [det |-> TRUE, val |-> v]

\* A block that is not allocated, and a block fresh from malloc.
Freed == [live |-> FALSE, x |-> Indet, y |-> Indet]
Fresh == [live |-> TRUE, x |-> Indet, y |-> Indet]

Unset == [set |-> FALSE, val |-> 0, by |-> "t1"]
SetBy(t, v) == [set |-> TRUE, val |-> v, by |-> t]

\* What ret holds as the result of a void entry point.
Void == <<>>

Live == {a \in Addr : heap[a].live}
Held == UNION {handles[t] : t \in Threads}

(***************************************************************************)
(* Memory                                                                  *)
(***************************************************************************)
\* The bytes of a 32-bit int in memory, lowest address first (the target of
\* java_base.h is little-endian).
IntBytes(v) ==
  <<Lo(v) % Byte, Lo(v) \div Byte, Hi(v) % Byte, Hi(v) \div Byte>>

\* Mutant of LoadInt: the bytes taken highest first.
LoadInt_bigendian(bytes, off) ==
  ToInt(bytes[off + 1] * Byte + bytes[off + 2],
        bytes[off + 3] * Byte + bytes[off + 4])

\* The int read from the four bytes at offset off (0-based) of a byte block.
LoadInt(bytes, off) ==
  ToInt(bytes[off + 4] * Byte + bytes[off + 3],
        bytes[off + 2] * Byte + bytes[off + 1])

\* The layout of Point: x at offset 0, y at offset 4.
PointBytes(p) == IntBytes(p.x) \o IntBytes(p.y)

\* Pointers to Point, by the region they point into.
HeapPtr(a) == [region |-> "heap", idx |-> a]
StackPtr(i) == [region |-> "stack", idx |-> i]
BufPtr(b) == [region |-> "buf", idx |-> b]

\* Mutant of HandleToPtr: the pointer one block further.
HandleToPtr_next(h) == HeapPtr((h % MaxAddr) + 1)

\* (Point*) thisPoint
HandleToPtr(h) == HeapPtr(h)

\* (jlong) p
PtrToHandle(p) == p.idx

\* (*env)->GetDirectBufferAddress(env, buff): the address of the buffer's
\* first byte.
GetDirectBufferAddress(b) == BufPtr(b)

\* The fields of heap blocks behind the pointers ps that are indeterminate.
IndetFields(ps) ==
  {<<p.idx, "x">> : p \in {q \in ps : q.region = "heap" /\ ~heap[q.idx].x.det}}
    \cup
  {<<p.idx, "y">> : p \in {q \in ps : q.region = "heap" /\ ~heap[q.idx].y.det}}

\* What the indeterminate fields behind ps may read as during one call: some
\* int for each of them.
Garbage(ps) == [IndetFields(ps) -> HVals]

\* point->x and point->y: the stored int, or what the garbage there reads as.
LoadX(p, g) ==
  IF heap[p.idx].x.det THEN heap[p.idx].x.val ELSE g[<<p.idx, "x">>]
LoadY(p, g) ==
  IF heap[p.idx].y.det THEN heap[p.idx].y.val ELSE g[<<p.idx, "y">>]

\* *p: the Point read through a pointer.
Deref(p, g) ==
  CASE p.region = "heap" -> Point(LoadX(p, g), LoadY(p, g))
    [] p.region = "stack" -> pts[p.idx]
    [] p.region = "buf" ->
         Point(LoadInt(bufs[p.idx], 0), LoadInt(bufs[p.idx], 4))

\* Mutants of the stores: setX writing the y field, and setY writing both.
StoreX_intoY(p, v) == [heap EXCEPT ![p.idx].y = Stored(v)]
StoreY_both(p, v) ==
  [heap EXCEPT ![p.idx].x = Stored(v), ![p.idx].y = Stored(v)]

\* point->x = value and point->y = value
StoreX(p, v) == [heap EXCEPT ![p.idx].x = Stored(v)]
StoreY(p, v) == [heap EXCEPT ![p.idx].y = Stored(v)]

\* Mutant of MallocChoices: a block still allocated may be returned again.
MallocChoices_any == Addr

\* The addresses malloc may return: any block not allocated at the moment,
\* one freed earlier included.
MallocChoices == Addr \ Live

\* free(p): the block at p is no longer allocated.
FreeBlock(p) == [heap EXCEPT ![p.idx] = Freed]

\* Whether the blocks behind the heap pointers among ps are all allocated.
AllLive(ps) == \A p \in ps : p.region = "heap" => heap[p.idx].live

(***************************************************************************)
(* Entry points                                                            *)
(***************************************************************************)
NoFrame == [xDist |-> 0, yDist |-> 0, sum |-> 0]

Called(op, t, args, val, ok) ==
  [op |-> op, t |-> t, args |-> args, val |-> val, live |-> ok,
   frame |-> NoFrame]

\* Mutant of Invoke_distance: the absolute differences written back over
\* the first Point.
Invoke_distance_inplace(op, t, args, q1, q2) ==
  \E g \in Garbage({q1, q2}) :
    LET fr == distanceFrame(Deref(q1, g), Deref(q2, g))
        p == Point(fr.xDist, fr.yDist)
    IN  /\ ret' = [op |-> op, t |-> t, args |-> args, val |-> sqrt(fr.sum),
                   live |-> AllLive({q1, q2}), frame |-> fr]
        /\ heap' = IF q1.region = "heap"
                     THEN [heap EXCEPT ![q1.idx].x = Stored(p.x),
                                       ![q1.idx].y = Stored(p.y)]
                     ELSE heap
        /\ bufs' = IF q1.region = "buf"
                     THEN [bufs EXCEPT ![q1.idx] = PointBytes(p)]
                     ELSE bufs
        /\ UNCHANGED <<handles, lastX, lastY, pts>>

\* One invocation of distance on the Points read through q1 and q2: its
\* locals and its result; nothing else is written.
Invoke_distance(op, t, args, q1, q2) ==
  \E g \in Garbage({q1, q2}) :
    /\ ret' = LET fr == distanceFrame(Deref(q1, g), Deref(q2, g))
               IN  [op |-> op, t |-> t, args |-> args, val |-> sqrt(fr.sum),
                    live |-> AllLive({q1, q2}), frame |-> fr]
    /\ UNCHANGED <<heap, handles, lastX, lastY, bufs, pts>>

\* double distance(Point p1, Point p2), on the caller's structures i and j
Call_distance(t, i, j) ==
  Invoke_distance("distance", t, <<pts[i], pts[j]>>, StackPtr(i), StackPtr(j))

\* double distance_ptrs(Point* p1, Point* p2)
Call_distance_ptrs(t, q1, q2) ==
  Invoke_distance("distance_ptrs", t, <<q1, q2>>, q1, q2)

\* jlong JNIPoint_allocate(): malloc(sizeof *p), contents indeterminate.
JNIPoint_allocate(t) ==
  \E a \in MallocChoices :
    /\ heap' = [heap EXCEPT ![a] = Fresh]
    /\ handles' = [handles EXCEPT ![t] = @ \cup {PtrToHandle(HeapPtr(a))}]
    /\ lastX' = [lastX EXCEPT ![a] = Unset]
    /\ lastY' = [lastY EXCEPT ![a] = Unset]
    /\ ret' = Called("allocate", t, <<>>, PtrToHandle(HeapPtr(a)), TRUE)
    /\ UNCHANGED <<bufs, pts>>

\* void JNIPoint_free(jlong thisPoint)
JNIPoint_free(t, h) ==
  /\ h \in handles[t]
  /\ heap' = FreeBlock(HandleToPtr(h))
  /\ handles' = [handles EXCEPT ![t] = @ \ {h}]
  /\ lastX' = [lastX EXCEPT ![h] = Unset]
  /\ lastY' = [lastY EXCEPT ![h] = Unset]
  /\ ret' = Called("free", t, <<h>>, Void, AllLive({HandleToPtr(h)}))
  /\ UNCHANGED <<bufs, pts>>

\* jint JNIPoint_getX(jlong thisPoint)
JNIPoint_getX(t, h) ==
  /\ h \in handles[t]
  /\ \E g \in Garbage({HandleToPtr(h)}) :
       ret' = Called("getX", t, <<h>>, LoadX(HandleToPtr(h), g),
                     AllLive({HandleToPtr(h)}))
  /\ UNCHANGED <<heap, handles, lastX, lastY, bufs, pts>>

\* void JNIPoint_setX(jlong thisPoint, jint value)
JNIPoint_setX(t, h, v) ==
  /\ h \in handles[t]
  /\ heap' = StoreX(HandleToPtr(h), v)
  /\ lastX' = [lastX EXCEPT ![h] = SetBy(t, v)]
  /\ ret' = Called("setX", t, <<h, v>>, Void, AllLive({HandleToPtr(h)}))
  /\ UNCHANGED <<handles, lastY, bufs, pts>>

\* jint JNIPoint_getY(jlong thisPoint)
JNIPoint_getY(t, h) ==
  /\ h \in handles[t]
  /\ \E g \in Garbage({HandleToPtr(h)}) :
       ret' = Called("getY", t, <<h>>, LoadY(HandleToPtr(h), g),
                     AllLive({HandleToPtr(h)}))
  /\ UNCHANGED <<heap, handles, lastX, lastY, bufs, pts>>

\* void JNIPoint_setY(jlong thisPoint, jint value)
JNIPoint_setY(t, h, v) ==
  /\ h \in handles[t]
  /\ heap' = StoreY(HandleToPtr(h), v)
  /\ lastY' = [lastY EXCEPT ![h] = SetBy(t, v)]
  /\ ret' = Called("setY", t, <<h, v>>, Void, AllLive({HandleToPtr(h)}))
  /\ UNCHANGED <<handles, lastX, bufs, pts>>

\* jdouble JNIPoint_distance(jlong thisPoint, jlong other)
JNIPoint_distance(t, h1, h2) ==
  /\ h1 \in handles[t]
  /\ h2 \in handles[t]
  /\ Invoke_distance("JNIPoint_distance", t, <<h1, h2>>,
                     HandleToPtr(h1), HandleToPtr(h2))

\* jdouble BBPoint_distance(jobject buffP1, jobject buffP2)
BBPoint_distance(t, b1, b2) ==
  Invoke_distance("BBPoint_distance", t, <<b1, b2>>,
                  GetDirectBufferAddress(b1), GetDirectBufferAddress(b2))

(***************************************************************************)
(* Specifications                                                          *)
(***************************************************************************)
InitCommon ==
  /\ heap = [a \in Addr |-> Freed]
  /\ handles = [t \in Threads |-> {}]
  /\ lastX = [a \in Addr |-> Unset]
  /\ lastY = [a \in Addr |-> Unset]
  /\ ret = Called("none", "t1", <<>>, Void, TRUE)

\* The library loaded, nothing allocated; the caller's structures hold the
\* Points of the documented example.
Init ==
  /\ InitCommon
  /\ bufs = [b \in BufId |-> PointBytes(Point(0, 0))]
  /\ pts = [i \in StackId |-> IF i = 1 THEN Point(0, 0) ELSE Point(3, 4)]

\* The handle entry points, called by two threads, each working on a Point
\* of its own.
Next ==
  \E t \in Threads :
    \/ handles[t] = {} /\ JNIPoint_allocate(t)
    \/ \E h \in Addr : JNIPoint_free(t, h)
    \/ \E h \in Addr : JNIPoint_getX(t, h)
    \/ \E h \in Addr, v \in HVals : JNIPoint_setX(t, h, v)
    \/ \E h \in Addr : JNIPoint_getY(t, h)
    \/ \E h \in Addr, v \in HVals : JNIPoint_setY(t, h, v)
    \/ \E h1 \in Addr, h2 \in Addr : JNIPoint_distance(t, h1, h2)

Spec == Init /\ [][Next]_vars

\* The Points the host runtime has put into the two direct buffers before
\* it passes them (x first, each field a 32-bit int in native byte order);
\* the caller's two structures hold the same two Points.
BufPoint(b) == IF b = 1 THEN Point(MinInt, 3) ELSE Point(3, MinInt)

InitForms ==
  /\ InitCommon
  /\ bufs = [b \in BufId |-> PointBytes(BufPoint(b))]
  /\ pts = [i \in StackId |-> BufPoint(i)]

\* The pairs of pointers handed to distance_ptrs: to the caller's two
\* structures, to the Points it holds, or into the two buffers.
PtrPairs(t) ==
  {<<StackPtr(i), StackPtr(j)>> : i \in StackId, j \in StackId}
    \cup {<<HeapPtr(a), HeapPtr(b)>> : a \in handles[t], b \in handles[t]}
    \cup {<<BufPtr(a), BufPtr(b)>> : a \in BufId, b \in BufId}

\* One thread using every entry point, on the buffers, on its structures and
\* on the Points it holds, two at a time as distance takes them.
NextForms ==
  \/ Cardinality(handles["t1"]) < 2 /\ JNIPoint_allocate("t1")
  \/ \E h \in Addr : JNIPoint_free("t1", h)
  \/ \E h \in Addr : JNIPoint_getX("t1", h)
  \/ \E h \in Addr, v \in HVals : JNIPoint_setX("t1", h, v)
  \/ \E h \in Addr : JNIPoint_getY("t1", h)
  \/ \E h \in Addr, v \in HVals : JNIPoint_setY("t1", h, v)
  \/ \E h1 \in Addr, h2 \in Addr : JNIPoint_distance("t1", h1, h2)
  \/ \E b1 \in BufId, b2 \in BufId : BBPoint_distance("t1", b1, b2)
  \/ \E i \in StackId, j \in StackId : Call_distance("t1", i, j)
  \/ \E qq \in PtrPairs("t1") : Call_distance_ptrs("t1", qq[1], qq[2])

SpecForms == InitForms /\ [][NextForms]_vars

\* distance as a pure function: the caller's two structures range over
\* DPoints and are passed by value and by pointer in every order.
InitDist ==
  /\ InitCommon
  /\ bufs = [b \in BufId |-> PointBytes(Point(0, 0))]
  /\ pts \in [StackId -> DPoints]

NextDist ==
  \E i \in StackId, j \in StackId :
    \/ Call_distance("t1", i, j)
    \/ Call_distance_ptrs("t1", StackPtr(i), StackPtr(j))

SpecDist == InitDist /\ [][NextDist]_vars

(***************************************************************************)
(* Properties of distance as a function (checked under SpecDist)           *)
(***************************************************************************)
DistanceOps ==
  {"distance", "distance_ptrs", "JNIPoint_distance", "BBPoint_distance"}

\* The two Points of the last call, when it was distance or distance_ptrs on
\* the caller's structures.
ArgPoint(k) ==
  IF ret.op = "distance" THEN ret.args[k] ELSE pts[ret.args[k].idx]

OnStructures == ret.op \in {"distance", "distance_ptrs"}

\* Whether the integer a - b is an int, so that the model can compute it.
DiffFits(a, b) ==
  IF a >= 0 /\ b < 0 THEN a <= MaxInt + b
  ELSE IF a < 0 /\ b >= 0 THEN a >= MinInt + b
  ELSE TRUE

\* Whether the integers dx * dx and dy * dy and their sum are ints.
SquaresFit(dx, dy) ==
  /\ -46340 <= dx /\ dx <= 46340
  /\ -46340 <= dy /\ dy <= 46340
  /\ dx * dx <= MaxInt - dy * dy

\* Whether the exact integer (x1-x2)^2 + (y1-y2)^2 is at most INT_MAX, and
\* that integer when it is.
ExactFits(p1, p2) ==
  /\ DiffFits(p1.x, p2.x)
  /\ DiffFits(p1.y, p2.y)
  /\ SquaresFit(p1.x - p2.x, p1.y - p2.y)

ExactSum(p1, p2) ==
  (p1.x - p2.x) * (p1.x - p2.x) + (p1.y - p2.y) * (p1.y - p2.y)

\* C1 as claimed: for every pair of Points the int passed to sqrt equals the
\* exact integer (x1-x2)^2 + (y1-y2)^2.  The value passed is an int, so it
\* can equal the exact integer only if that integer is representable.
C1_RadicandExactForAllPairs ==
  OnStructures =>
    /\ ExactFits(ArgPoint(1), ArgPoint(2))
    /\ ret.frame.sum = ExactSum(ArgPoint(1), ArgPoint(2))

\* C1 (amended): for every pair of Points whose exact integer
\* (x1-x2)^2 + (y1-y2)^2 is at most INT_MAX, the int passed to sqrt equals
\* that integer and distance returns its square root: (0,0),(3,4) and
\* (-3,-4),(0,0) both give radicand 25 and distance 5.0.
C1_RadicandExactWhenRepresentable ==
  (OnStructures /\ ExactFits(ArgPoint(1), ArgPoint(2))) =>
    /\ ret.frame.sum = ExactSum(ArgPoint(1), ArgPoint(2))
    /\ ret.val = [nan |-> FALSE, sq |-> ret.frame.sum,
                  floor |-> ISqrt(ret.frame.sum)]
    /\ (ret.args \in {<<Point(0, 0), Point(3, 4)>>,
                      <<Point(-3, -4), Point(0, 0)>>} =>
          ret.val = [nan |-> FALSE, sq |-> 25, floor |-> 5])

\* C1 witness: distance called by value on (-3,-4),(0,0) returned 5.0.
C1_Witness ==
  /\ ret.op = "distance"
  /\ ret.args = <<Point(-3, -4), Point(0, 0)>>
  /\ ret.frame = [xDist |-> 3, yDist |-> 4, sum |-> 25]
  /\ ret.val = [nan |-> FALSE, sq |-> 25, floor |-> 5]

\* C2: distance is symmetric: a call of distance on (B, A) that follows a
\* call on (A, B) returns the same double, for all A and B, the ones of
\* which the difference or the squares wrap included.
C2_Symmetric ==
  [][(/\ ret.op \in {"distance", "distance_ptrs"}
      /\ ret'.op = ret.op
      /\ ret'.args = <<ret.args[2], ret.args[1]>>)
       => ret'.val = ret.val]_vars

\* C2 witness: distance returned for two different Points of which the
\* difference of the x fields wraps.
C2_Witness ==
  /\ ret.op = "distance"
  /\ ret.args = <<Point(MinInt, 3), Point(MaxInt, 0)>>
  /\ ret.frame.xDist = 1

\* C10 as claimed: in every call xDist, yDist and the int passed to sqrt
\* are non-negative, so sqrt never gets a negative argument.
C10_NeverNegative ==
  ret.op \in DistanceOps =>
    /\ ret.frame.xDist >= 0
    /\ ret.frame.yDist >= 0
    /\ ret.frame.sum >= 0
    /\ ~ret.val.nan

\* C10 (amended): xDist is non-negative unless the wrapped difference
\* p1.x - p2.x is INT_MIN, yDist likewise, and the int passed to sqrt is
\* non-negative (and the result no NaN) whenever the integer
\* xDist^2 + yDist^2 is at most INT_MAX.
C10_NonNegativeUnlessWrapped ==
  OnStructures =>
    /\ Sub32(ArgPoint(1).x, ArgPoint(2).x) # MinInt => ret.frame.xDist >= 0
    /\ Sub32(ArgPoint(1).y, ArgPoint(2).y) # MinInt => ret.frame.yDist >= 0
    /\ (/\ ret.frame.xDist >= 0
        /\ ret.frame.yDist >= 0
        /\ SquaresFit(ret.frame.xDist, ret.frame.yDist))
         => (ret.frame.sum >= 0 /\ ~ret.val.nan)

\* C10 witness: a call with negative differences whose squares just fit.
C10_Witness ==
  /\ ret.op = "distance"
  /\ ret.args = <<Point(0, -4), Point(46340, 0)>>
  /\ ret.frame = [xDist |-> 46340, yDist |-> 4, sum |-> 2147395616]
  /\ ~ret.val.nan

(***************************************************************************)
(* Properties of the call forms (checked under SpecForms)                  *)
(***************************************************************************)
Zero == [nan |-> FALSE, sq |-> 0, floor |-> 0]

\* The Point a caller knows to be behind pointer q: what it last set through
\* the handle, what the runtime put into the buffer, or its own structure.
KnownAt(q) == q.region = "heap" => (lastX[q.idx].set /\ lastY[q.idx].set)

PointAt(q) ==
  CASE q.region = "heap" -> Point(lastX[q.idx].val, lastY[q.idx].val)
    [] q.region = "stack" -> pts[q.idx]
    [] q.region = "buf" -> BufPoint(q.idx)

\* The pointers behind the two arguments of the last call of a distance form
\* (for the by-value form, the Points themselves are the arguments).
CallPtr(k) ==
  CASE ret.op = "distance_ptrs" -> ret.args[k]
    [] ret.op = "JNIPoint_distance" -> HeapPtr(ret.args[k])
    [] ret.op = "BBPoint_distance" -> BufPtr(ret.args[k])

\* Whether the last call was a distance form on two Points whose fields the
\* caller knows, and those two Points.
CallKnown ==
  /\ ret.op \in DistanceOps
  /\ ret.op # "distance" => (KnownAt(CallPtr(1)) /\ KnownAt(CallPtr(2)))

CallPoints ==
  IF ret.op = "distance" THEN ret.args
  ELSE <<PointAt(CallPtr(1)), PointAt(CallPtr(2))>>

\* C3: distance(P, P) is 0: by value on twice the same Point, by
\* distance_ptrs on twice the same pointer, by JNIPoint_distance on twice
\* the same live handle.
C3_DistanceToSelfIsZero ==
  (/\ ret.op \in {"distance", "distance_ptrs", "JNIPoint_distance"}
   /\ ret.args[1] = ret.args[2])
    => (ret.val = Zero /\ ret.frame.sum = 0)

\* C3 witness: JNIPoint_distance returned for one live handle given twice,
\* whose Point has the fields (INT_MIN, 3).
C3_Witness ==
  /\ ret.op = "JNIPoint_distance"
  /\ ret.args[1] = ret.args[2]
  /\ heap[ret.args[1]] = [live |-> TRUE, x |-> Stored(MinInt), y |-> Stored(3)]
  /\ ret.val = Zero

\* C5: the call forms agree: two successive calls of distance forms (by
\* value, distance_ptrs, JNIPoint_distance on live handles, BBPoint_distance
\* on buffers) on the same coordinates return the same double.
C5_FormsAgree ==
  [][(CallKnown /\ CallKnown' /\ CallPoints' = CallPoints)
       => ret'.val = ret.val]_vars

\* C5 witness: BBPoint_distance returned for the two buffers while two live
\* handles hold the same coordinates as the buffers.
C5_Witness ==
  /\ ret.op = "BBPoint_distance"
  /\ ret.args = <<1, 2>>
  /\ \E h1 \in handles["t1"], h2 \in handles["t1"] :
       /\ KnownAt(HeapPtr(h1)) /\ PointAt(HeapPtr(h1)) = BufPoint(1)
       /\ KnownAt(HeapPtr(h2)) /\ PointAt(HeapPtr(h2)) = BufPoint(2)

\* C7: a call of distance in any of its forms leaves every Point, the set
\* of live handles and the bytes of the buffers as they were, and frees
\* nothing.
C7_DistanceHasNoSideEffects ==
  [][ret'.op \in DistanceOps
       => (/\ heap' = heap
           /\ handles' = handles
           /\ bufs' = bufs
           /\ pts' = pts
           /\ Live' = Live)]_vars

\* C7 witness: BBPoint_distance returned with both buffers as filled and two
\* Points live.
C7_Witness ==
  /\ ret.op = "BBPoint_distance"
  /\ bufs = [b \in BufId |-> PointBytes(BufPoint(b))]
  /\ Cardinality(Live) = 2

\* C4: on a live handle, getX returns the value of the last setX on it and
\* getY that of the last setY, whatever was called in between.
C4_GetReturnsLastSet ==
  /\ (ret.op = "getX" /\ lastX[ret.args[1]].set)
       => ret.val = lastX[ret.args[1]].val
  /\ (ret.op = "getY" /\ lastY[ret.args[1]].set)
       => ret.val = lastY[ret.args[1]].val
  /\ \A a \in Live :
       /\ lastX[a].set => heap[a].x = Stored(lastX[a].val)
       /\ lastY[a].set => heap[a].y = Stored(lastY[a].val)

\* C4 witness: getX returned INT_MIN on a handle whose y was set to 3 after
\* its x, with a second Point live.
C4_Witness ==
  /\ ret.op = "getX"
  /\ ret.val = MinInt
  /\ lastX[ret.args[1]] = SetBy("t1", MinInt)
  /\ lastY[ret.args[1]] = SetBy("t1", 3)
  /\ Cardinality(Live) = 2

\* The blocks other than h are as they were.
OthersKept(h) == \A a \in Addr \ {h} : heap'[a] = heap[a]

\* C9: setX changes only the x field of its Point, setY only the y field,
\* getX and getY change nothing, and free takes only its handle out of the
\* live set and leaves every other Point as it was.
C9_AccessorsTouchOnlyTheirTarget ==
  [][LET h == ret'.args[1] IN
     /\ ret'.op = "setX" =>
          /\ OthersKept(h)
          /\ heap'[h].x = Stored(ret'.args[2])
          /\ heap'[h].y = heap[h].y
          /\ Live' = Live /\ handles' = handles
     /\ ret'.op = "setY" =>
          /\ OthersKept(h)
          /\ heap'[h].y = Stored(ret'.args[2])
          /\ heap'[h].x = heap[h].x
          /\ Live' = Live /\ handles' = handles
     /\ ret'.op \in {"getX", "getY"} =>
          /\ heap' = heap
          /\ handles' = handles
     /\ ret'.op = "free" =>
          /\ OthersKept(h)
          /\ Live' = Live \ {h}
          /\ Held' = Held \ {h}
     /\ ret'.op \in {"setX", "setY", "getX", "getY", "free"} =>
          /\ bufs' = bufs
          /\ pts' = pts]_vars

\* C9 witness: setX stored 3 in a Point whose y field holds INT_MIN, with a
\* second Point live whose fields are stored.
C9_Witness ==
  /\ ret.op = "setX"
  /\ heap[ret.args[1]] = [live |-> TRUE, x |-> Stored(3), y |-> Stored(MinInt)]
  /\ \E a \in Live \ {ret.args[1]} : heap[a].x.det /\ heap[a].y.det

C8_ThreadsDoNotInterfere ==
  /\ [](/\ ret.live
        /\ (ret.op = "getX" /\ lastX[ret.args[1]].set) =>
             /\ ret.val = lastX[ret.args[1]].val
             /\ lastX[ret.args[1]].by = ret.t
        /\ (ret.op = "getY" /\ lastY[ret.args[1]].set) =>
             /\ ret.val = lastY[ret.args[1]].val
             /\ lastY[ret.args[1]].by = ret.t)
  /\ [][\A u \in Threads \ {ret'.t} : \A a \in handles[u] :
          /\ heap'[a] = heap[a]
          /\ a \in handles'[u]]_vars

\* C8 witness: t2 got back from getX the value it set, while t1 holds a
\* Point in which it stored another value.
C8_Witness ==
  /\ ret.op = "getX"
  /\ ret.t = "t2"
  /\ lastX[ret.args[1]] = SetBy("t2", 3)
  /\ ret.val = 3
  /\ \E a \in handles["t1"] : lastX[a] = SetBy("t1", MinInt)

====
